---- MODULE Spec2Model ----
(***************************************************************************)
(* State-machine model of src/bot/main.py: the captcha bot's durable store *)
(* (UserActivityTracker), its in-memory session table (user_captcha), the  *)
(* message/callback/command handlers of CaptchaBot and the background      *)
(* check_captcha_timeout thread.                                           *)
(*                                                                         *)
(* Modelled columns of `users`: user_id, chat_id, captcha_passed,          *)
(* message_count (username and the two timestamps are pure data).          *)
(* Strings that the code parses (callback data, command text) are          *)
(* sequences of symbols: a character, written as itself up to U+00FF and   *)
(* by its code point (U+2003) beyond, or a word that is never taken apart  *)
(* (/remove_captcha, captcha, the name of an emoji).  The concepts of      *)
(* captcha_config['objects'] are transliterated and their emoji named.     *)
(* The handlers run on the Gateway library's worker threads, NumThreads of *)
(* them, so two handlers can be in progress at once; check_captcha_timeout *)
(* runs on a thread of its own.  The threads share user_captcha, the       *)
(* configured pools, the clock, the Gateway and the store with its one     *)
(* connection and one cursor.  A step of a thread is one access to shared  *)
(* state or one Gateway call, with the local computation before it; the    *)
(* threads interleave between steps without restriction.  A write call of  *)
(* the store is its statements, one step each, and its commit or rollback  *)
(* on the shared connection; an iteration over the dict is one step per    *)
(* item; random.shuffle is the reads and writes of its swaps.              *)
(* A new_chat_members message is taken with one member; welcome's loop     *)
(* over several members behaves as that many messages in a row.            *)
(*                                                                         *)
(* The specifications differ in the events the Gateway delivers.  Spec:    *)
(* joins and responses of all users, with the sweeper, MaxEvents events.   *)
(* ResponseSpec: joins and responses, MoreEvents events.  AdminSpec:       *)
(* joins and /remove_captcha commands, with the sweeper.  ActivitySpec:    *)
(* joins and ordinary messages, MoreEvents events.  RestartSpec: joins and *)
(* ordinary messages over the database file of an earlier run.             *)
(* RoutedSpec: the messages reach the handlers through the registration    *)
(* order of register_handlers.  FairSpec: joins, one at a time, and the    *)
(* sweeper, with every thread scheduled again and again.  In all but       *)
(* RoutedSpec the handlers are called directly with their events.          *)
(***************************************************************************)
EXTENDS Integers, Sequences, FiniteSets, TLC

\* ---------------------------------------------------------------- bounds
NumUsers == 2
NumActive == 1
NumChats == 2
NumObjects == 1
PoolSize == 2
MaxEvents == 2
MoreEvents == 3
MaxTicks == 1
TickStep == 301
MaxFails == 1
NumThreads == 2

\* ------------------------------------------------------ program constants
max_captcha_time == 300
\* sys.get_int_max_str_digits() of the interpreter (CPython 3.11): int()
\* raises ValueError for a decimal literal with more digits
int_max_str_digits == 4300

Users == 1..NumUsers
\* the users of the specifications that deliver events about fewer users
Active == 1..NumActive
Chats == 1..NumChats

\* captcha_config['objects']: table, chair, spoon, fork, knife, cup
AllObjects == <<"stol", "stul", "lozhka", "vilka", "nozh", "chashka">>
\* captcha_config['emojis'], each pool in the configured order
AllEmojis ==
  [o \in {"stol", "stul", "lozhka", "vilka", "nozh", "chashka"} |->
     CASE o = "stol" -> <<"chair", "plate", "house", "ice", "door">>
       [] o = "stul" -> <<"chair", "sofa", "house", "ice", "books">>
       [] o = "lozhka" -> <<"spoon", "stew", "bowl", "plate", "tea">>
       [] o = "vilka" -> <<"fork", "paella", "plate", "bowl", "stew">>
       [] o = "nozh" -> <<"knife", "plate", "meat", "cucumber", "carrot">>
       [] OTHER -> <<"coffee", "tea", "soda", "beer", "milk">>]

Min(a, b) == IF a < b THEN a ELSE b
Range(s) == {s[i] : i \in 1..Len(s)}

\* captcha_config['objects'] and ['emojis'], cut to the model's bounds
objects == SubSeq(AllObjects, 1, Min(NumObjects, Len(AllObjects)))
InitEmojis ==
  [o \in Range(objects) |-> SubSeq(AllEmojis[o], 1, Min(PoolSize, Len(AllEmojis[o])))]

EmojiSet == UNION {Range(InitEmojis[o]) : o \in Range(objects)}

\* ---------------------------------------------------------- pure helpers
\* str.split(sep): the pieces between separators, empty pieces kept
RECURSIVE SplitOn(_, _)
SplitOn(s, sep) ==
  IF \A i \in 1..Len(s) : s[i] # sep THEN <<s>>
  ELSE LET j == CHOOSE i \in 1..Len(s) :
                   s[i] = sep /\ \A k \in 1..(i - 1) : s[k] # sep
       IN <<SubSeq(s, 1, j - 1)>> \o SplitOn(SubSeq(s, j + 1, Len(s)), sep)

NonEmpty(w) == w # <<>>
\* the characters for which str.isspace() is true, the separators of
\* str.split(): blank, \t, \n, \r, \f, \x0b, \x1c-\x1f, U+0085, U+00A0 and
\* the Unicode spaces and line separators from U+1680 on
Whitespace ==
  {"\t", "\n", "", "\f", "\r", "", "", "", "", " ", "", " ", "U+1680",
   "U+2000", "U+2001", "U+2002", "U+2003", "U+2004", "U+2005", "U+2006",
   "U+2007", "U+2008", "U+2009", "U+200A", "U+2028", "U+2029", "U+202F",
   "U+205F", "U+3000"}
\* str.split(): split on runs of whitespace, empty pieces dropped
SplitWS(s) ==
  SelectSeq(SplitOn([i \in 1..Len(s) |-> IF s[i] \in Whitespace THEN " " ELSE s[i]], " "),
            NonEmpty)

\* the decimal digits int() reads, by value: the ASCII digit and the digit
\* of that value in every other script (Unicode category Nd)
Digits ==
  <<{"0", "U+0660", "U+06F0", "U+07C0", "U+0966", "U+09E6", "U+0A66",
    "U+0AE6", "U+0B66", "U+0BE6", "U+0C66", "U+0CE6", "U+0D66", "U+0DE6",
    "U+0E50", "U+0ED0", "U+0F20", "U+1040", "U+1090", "U+17E0", "U+1810",
    "U+1946", "U+19D0", "U+1A80", "U+1A90", "U+1B50", "U+1BB0", "U+1C40",
    "U+1C50", "U+A620", "U+A8D0", "U+A900", "U+A9D0", "U+A9F0", "U+AA50",
    "U+ABF0", "U+FF10", "U+104A0", "U+10D30", "U+11066", "U+110F0",
    "U+11136", "U+111D0", "U+112F0", "U+11450", "U+114D0", "U+11650",
    "U+116C0", "U+11730", "U+118E0", "U+11950", "U+11C50", "U+11D50",
    "U+11DA0", "U+16A60", "U+16AC0", "U+16B50", "U+1D7CE", "U+1D7D8",
    "U+1D7E2", "U+1D7EC", "U+1D7F6", "U+1E140", "U+1E2F0", "U+1E950",
    "U+1FBF0"},
   {"1", "U+0661", "U+06F1", "U+07C1", "U+0967", "U+09E7", "U+0A67",
    "U+0AE7", "U+0B67", "U+0BE7", "U+0C67", "U+0CE7", "U+0D67", "U+0DE7",
    "U+0E51", "U+0ED1", "U+0F21", "U+1041", "U+1091", "U+17E1", "U+1811",
    "U+1947", "U+19D1", "U+1A81", "U+1A91", "U+1B51", "U+1BB1", "U+1C41",
    "U+1C51", "U+A621", "U+A8D1", "U+A901", "U+A9D1", "U+A9F1", "U+AA51",
    "U+ABF1", "U+FF11", "U+104A1", "U+10D31", "U+11067", "U+110F1",
    "U+11137", "U+111D1", "U+112F1", "U+11451", "U+114D1", "U+11651",
    "U+116C1", "U+11731", "U+118E1", "U+11951", "U+11C51", "U+11D51",
    "U+11DA1", "U+16A61", "U+16AC1", "U+16B51", "U+1D7CF", "U+1D7D9",
    "U+1D7E3", "U+1D7ED", "U+1D7F7", "U+1E141", "U+1E2F1", "U+1E951",
    "U+1FBF1"},
   {"2", "U+0662", "U+06F2", "U+07C2", "U+0968", "U+09E8", "U+0A68",
    "U+0AE8", "U+0B68", "U+0BE8", "U+0C68", "U+0CE8", "U+0D68", "U+0DE8",
    "U+0E52", "U+0ED2", "U+0F22", "U+1042", "U+1092", "U+17E2", "U+1812",
    "U+1948", "U+19D2", "U+1A82", "U+1A92", "U+1B52", "U+1BB2", "U+1C42",
    "U+1C52", "U+A622", "U+A8D2", "U+A902", "U+A9D2", "U+A9F2", "U+AA52",
    "U+ABF2", "U+FF12", "U+104A2", "U+10D32", "U+11068", "U+110F2",
    "U+11138", "U+111D2", "U+112F2", "U+11452", "U+114D2", "U+11652",
    "U+116C2", "U+11732", "U+118E2", "U+11952", "U+11C52", "U+11D52",
    "U+11DA2", "U+16A62", "U+16AC2", "U+16B52", "U+1D7D0", "U+1D7DA",
    "U+1D7E4", "U+1D7EE", "U+1D7F8", "U+1E142", "U+1E2F2", "U+1E952",
    "U+1FBF2"},
   {"3", "U+0663", "U+06F3", "U+07C3", "U+0969", "U+09E9", "U+0A69",
    "U+0AE9", "U+0B69", "U+0BE9", "U+0C69", "U+0CE9", "U+0D69", "U+0DE9",
    "U+0E53", "U+0ED3", "U+0F23", "U+1043", "U+1093", "U+17E3", "U+1813",
    "U+1949", "U+19D3", "U+1A83", "U+1A93", "U+1B53", "U+1BB3", "U+1C43",
    "U+1C53", "U+A623", "U+A8D3", "U+A903", "U+A9D3", "U+A9F3", "U+AA53",
    "U+ABF3", "U+FF13", "U+104A3", "U+10D33", "U+11069", "U+110F3",
    "U+11139", "U+111D3", "U+112F3", "U+11453", "U+114D3", "U+11653",
    "U+116C3", "U+11733", "U+118E3", "U+11953", "U+11C53", "U+11D53",
    "U+11DA3", "U+16A63", "U+16AC3", "U+16B53", "U+1D7D1", "U+1D7DB",
    "U+1D7E5", "U+1D7EF", "U+1D7F9", "U+1E143", "U+1E2F3", "U+1E953",
    "U+1FBF3"},
   {"4", "U+0664", "U+06F4", "U+07C4", "U+096A", "U+09EA", "U+0A6A",
    "U+0AEA", "U+0B6A", "U+0BEA", "U+0C6A", "U+0CEA", "U+0D6A", "U+0DEA",
    "U+0E54", "U+0ED4", "U+0F24", "U+1044", "U+1094", "U+17E4", "U+1814",
    "U+194A", "U+19D4", "U+1A84", "U+1A94", "U+1B54", "U+1BB4", "U+1C44",
    "U+1C54", "U+A624", "U+A8D4", "U+A904", "U+A9D4", "U+A9F4", "U+AA54",
    "U+ABF4", "U+FF14", "U+104A4", "U+10D34", "U+1106A", "U+110F4",
    "U+1113A", "U+111D4", "U+112F4", "U+11454", "U+114D4", "U+11654",
    "U+116C4", "U+11734", "U+118E4", "U+11954", "U+11C54", "U+11D54",
    "U+11DA4", "U+16A64", "U+16AC4", "U+16B54", "U+1D7D2", "U+1D7DC",
    "U+1D7E6", "U+1D7F0", "U+1D7FA", "U+1E144", "U+1E2F4", "U+1E954",
    "U+1FBF4"},
   {"5", "U+0665", "U+06F5", "U+07C5", "U+096B", "U+09EB", "U+0A6B",
    "U+0AEB", "U+0B6B", "U+0BEB", "U+0C6B", "U+0CEB", "U+0D6B", "U+0DEB",
    "U+0E55", "U+0ED5", "U+0F25", "U+1045", "U+1095", "U+17E5", "U+1815",
    "U+194B", "U+19D5", "U+1A85", "U+1A95", "U+1B55", "U+1BB5", "U+1C45",
    "U+1C55", "U+A625", "U+A8D5", "U+A905", "U+A9D5", "U+A9F5", "U+AA55",
    "U+ABF5", "U+FF15", "U+104A5", "U+10D35", "U+1106B", "U+110F5",
    "U+1113B", "U+111D5", "U+112F5", "U+11455", "U+114D5", "U+11655",
    "U+116C5", "U+11735", "U+118E5", "U+11955", "U+11C55", "U+11D55",
    "U+11DA5", "U+16A65", "U+16AC5", "U+16B55", "U+1D7D3", "U+1D7DD",
    "U+1D7E7", "U+1D7F1", "U+1D7FB", "U+1E145", "U+1E2F5", "U+1E955",
    "U+1FBF5"},
   {"6", "U+0666", "U+06F6", "U+07C6", "U+096C", "U+09EC", "U+0A6C",
    "U+0AEC", "U+0B6C", "U+0BEC", "U+0C6C", "U+0CEC", "U+0D6C", "U+0DEC",
    "U+0E56", "U+0ED6", "U+0F26", "U+1046", "U+1096", "U+17E6", "U+1816",
    "U+194C", "U+19D6", "U+1A86", "U+1A96", "U+1B56", "U+1BB6", "U+1C46",
    "U+1C56", "U+A626", "U+A8D6", "U+A906", "U+A9D6", "U+A9F6", "U+AA56",
    "U+ABF6", "U+FF16", "U+104A6", "U+10D36", "U+1106C", "U+110F6",
    "U+1113C", "U+111D6", "U+112F6", "U+11456", "U+114D6", "U+11656",
    "U+116C6", "U+11736", "U+118E6", "U+11956", "U+11C56", "U+11D56",
    "U+11DA6", "U+16A66", "U+16AC6", "U+16B56", "U+1D7D4", "U+1D7DE",
    "U+1D7E8", "U+1D7F2", "U+1D7FC", "U+1E146", "U+1E2F6", "U+1E956",
    "U+1FBF6"},
   {"7", "U+0667", "U+06F7", "U+07C7", "U+096D", "U+09ED", "U+0A6D",
    "U+0AED", "U+0B6D", "U+0BED", "U+0C6D", "U+0CED", "U+0D6D", "U+0DED",
    "U+0E57", "U+0ED7", "U+0F27", "U+1047", "U+1097", "U+17E7", "U+1817",
    "U+194D", "U+19D7", "U+1A87", "U+1A97", "U+1B57", "U+1BB7", "U+1C47",
    "U+1C57", "U+A627", "U+A8D7", "U+A907", "U+A9D7", "U+A9F7", "U+AA57",
    "U+ABF7", "U+FF17", "U+104A7", "U+10D37", "U+1106D", "U+110F7",
    "U+1113D", "U+111D7", "U+112F7", "U+11457", "U+114D7", "U+11657",
    "U+116C7", "U+11737", "U+118E7", "U+11957", "U+11C57", "U+11D57",
    "U+11DA7", "U+16A67", "U+16AC7", "U+16B57", "U+1D7D5", "U+1D7DF",
    "U+1D7E9", "U+1D7F3", "U+1D7FD", "U+1E147", "U+1E2F7", "U+1E957",
    "U+1FBF7"},
   {"8", "U+0668", "U+06F8", "U+07C8", "U+096E", "U+09EE", "U+0A6E",
    "U+0AEE", "U+0B6E", "U+0BEE", "U+0C6E", "U+0CEE", "U+0D6E", "U+0DEE",
    "U+0E58", "U+0ED8", "U+0F28", "U+1048", "U+1098", "U+17E8", "U+1818",
    "U+194E", "U+19D8", "U+1A88", "U+1A98", "U+1B58", "U+1BB8", "U+1C48",
    "U+1C58", "U+A628", "U+A8D8", "U+A908", "U+A9D8", "U+A9F8", "U+AA58",
    "U+ABF8", "U+FF18", "U+104A8", "U+10D38", "U+1106E", "U+110F8",
    "U+1113E", "U+111D8", "U+112F8", "U+11458", "U+114D8", "U+11658",
    "U+116C8", "U+11738", "U+118E8", "U+11958", "U+11C58", "U+11D58",
    "U+11DA8", "U+16A68", "U+16AC8", "U+16B58", "U+1D7D6", "U+1D7E0",
    "U+1D7EA", "U+1D7F4", "U+1D7FE", "U+1E148", "U+1E2F8", "U+1E958",
    "U+1FBF8"},
   {"9", "U+0669", "U+06F9", "U+07C9", "U+096F", "U+09EF", "U+0A6F",
    "U+0AEF", "U+0B6F", "U+0BEF", "U+0C6F", "U+0CEF", "U+0D6F", "U+0DEF",
    "U+0E59", "U+0ED9", "U+0F29", "U+1049", "U+1099", "U+17E9", "U+1819",
    "U+194F", "U+19D9", "U+1A89", "U+1A99", "U+1B59", "U+1BB9", "U+1C49",
    "U+1C59", "U+A629", "U+A8D9", "U+A909", "U+A9D9", "U+A9F9", "U+AA59",
    "U+ABF9", "U+FF19", "U+104A9", "U+10D39", "U+1106F", "U+110F9",
    "U+1113F", "U+111D9", "U+112F9", "U+11459", "U+114D9", "U+11659",
    "U+116C9", "U+11739", "U+118E9", "U+11959", "U+11C59", "U+11D59",
    "U+11DA9", "U+16A69", "U+16AC9", "U+16B59", "U+1D7D7", "U+1D7E1",
    "U+1D7EB", "U+1D7F5", "U+1D7FF", "U+1E149", "U+1E2F9", "U+1E959",
    "U+1FBF9"}>>
IsDigit(ch) == \E d \in 1..10 : ch \in Digits[d]
DigitVal(ch) == (CHOOSE d \in 1..10 : ch \in Digits[d]) - 1
\* str(n) for a one-digit n
AsciiDigits == <<"0", "1", "2", "3", "4", "5", "6", "7", "8", "9">>

RECURSIVE DecVal(_)
DecVal(w) ==
  IF w = <<>> THEN 0
  ELSE 10 * DecVal(SubSeq(w, 1, Len(w) - 1)) + DigitVal(w[Len(w)])

\* the literal after an optional sign
Unsigned(w) == IF w # <<>> /\ w[1] \in {"+", "-"} THEN Tail(w) ELSE w
\* digits, with single underscores allowed between two digits
IsIntBody(b) ==
  /\ b # <<>>
  /\ \A i \in 1..Len(b) : IsDigit(b[i]) \/ b[i] = "_"
  /\ IsDigit(b[1]) /\ IsDigit(b[Len(b)])
  /\ \A i \in 1..(Len(b) - 1) : ~(b[i] = "_" /\ b[i + 1] = "_")

\* the digits of the literal: sign and underscores are not counted,
\* leading zeros are
NumDigits(w) == Len(SelectSeq(Unsigned(w), IsDigit))
\* int(word) for a word without whitespace: <<n>> for an optionally signed
\* decimal literal of at most int_max_str_digits digits, <<>> when int()
\* raises ValueError
ParseInt(w) ==
  IF IsIntBody(Unsigned(w)) /\ NumDigits(w) <= int_max_str_digits
    THEN IF w[1] = "-" THEN <<0 - DecVal(SelectSeq(Unsigned(w), IsDigit))>>
                       ELSE <<DecVal(SelectSeq(Unsigned(w), IsDigit))>>
    ELSE <<>>

\* an emoji label as a string: one symbol
Str(emoji) == <<emoji>>

\* f'captcha_{emoji}'
callback_data(emoji) == <<"captcha", "_">> \o Str(emoji)
\* call.data.split('_')[1]
selected_emoji(data) == SplitOn(data, "_")[2]
\* call.data.startswith('captcha_')
IsCaptchaData(data) == Len(data) >= 2 /\ data[1] = "captcha" /\ data[2] = "_"

\* f'captcha_{status}'
CaptchaAction(status) == "captcha_" \o status

\* ------------------------------------------------------------ the store
Row(u, c, passed, count) ==
  [user_id |-> u, chat_id |-> c, captcha_passed |-> passed, message_count |-> count]
LogEntry(u, c, action) == [user_id |-> u, chat_id |-> c, action |-> action]

RowsOf(us, u, c) == {r \in us : r.user_id = u /\ r.chat_id = c}

\* the status the stored row of the key stands for: what check_user_status
\* returns when nothing disturbs it
StatusOf(us, u, c) ==
  IF RowsOf(us, u, c) = {} THEN "new"
  ELSE IF (CHOOSE r \in RowsOf(us, u, c) : TRUE).captcha_passed = 0
       THEN "not_verified" ELSE "verified"

\* a plain INSERT into a table without the primary key
InsertUserAgain(us, u, c) ==
  us \cup {Row(u, c, 0, Cardinality(RowsOf(us, u, c)))}

\* INSERT OR REPLACE INTO users ... VALUES (?, ?, ?, now, now, 0)
InsertOrReplaceUser(us, u, c) ==
  (us \ RowsOf(us, u, c)) \cup {Row(u, c, 0, 0)}

\* UPDATE users SET message_count = message_count + 1 WHERE ...
BumpMessageCount(us, u, c) ==
  {IF r.user_id = u /\ r.chat_id = c
     THEN [r EXCEPT !.message_count = @ + 1] ELSE r : r \in us}

\* UPDATE users SET captcha_passed = ? WHERE ...
SetCaptchaPassed(us, u, c, status) ==
  {IF r.user_id = u /\ r.chat_id = c
     THEN [r EXCEPT !.captcha_passed = IF status = "completed" THEN 1 ELSE 0]
     ELSE r : r \in us}

\* ---------------------------------------------------- the session table
\* user_captcha is a dict; it is kept as the sequence of its items in
\* insertion order, each item carrying its dict key k.
Session(k, obj, emoji, mid, c, u, ts) ==
  [k |-> k, object |-> obj, correct_emoji |-> emoji, message_id |-> mid,
   chat_id |-> c, user_id |-> u, timestamp |-> ts]

HasKey(d, k) == \E i \in 1..Len(d) : d[i].k = k

\* a table keyed by the challenge message
SessionKeyPerChallenge(u, mid) == mid

\* the key a session is stored under: new_member.id (line 298)
SessionKey(u, mid) == u

\* d[k] = v
DictSet(d, k, v) ==
  IF HasKey(d, k)
    THEN [i \in 1..Len(d) |-> IF d[i].k = k THEN v ELSE d[i]]
    ELSE Append(d, v)

Matches(info, u, c) == info.user_id = u /\ info.chat_id = c
NotMatches(info, u, c) == info.user_id # u \/ info.chat_id # c

\* next((info for info in d.values() if ...), None): <<info>> or <<>>
FindSession(d, u, c) ==
  LET hits == SelectSeq(d, LAMBDA info : Matches(info, u, c))
  IN IF hits = <<>> THEN <<>> ELSE <<Head(hits)>>

\* current_time - captcha_info['timestamp'] > max_captcha_time
IsExpired(info, t) == t - info.timestamp > max_captcha_time

\* a comparison that accepts every option
IsCorrectAlways(sel, info) == TRUE

\* selected_emoji == captcha_info['correct_emoji']
IsCorrect(sel, info) == sel = Str(info.correct_emoji)

\* user_status in ['new', 'not_verified']
NeedsCaptcha(status) == status \in {"new", "not_verified"}

\* a role test that lets every caller through
IsAdminAnyone(role) == TRUE

\* chat_member.status in ['administrator', 'creator']
IsAdmin(role) == role \in {"administrator", "creator"}

\* check_user_status, first part: cursor.execute(SELECT captcha_passed, ...)
\* leaves its result set on the tracker's one cursor
check_user_status_execute(us, u, c) ==
  IF RowsOf(us, u, c) = {} THEN <<>>
  ELSE <<(CHOOSE r \in RowsOf(us, u, c) : TRUE).captcha_passed>>
\* check_user_status, second part: cursor.fetchone() takes the next row of
\* whatever result set the cursor holds now (None when it holds none), and
\* the status is told from it
fetchone(cur) == IF cur = <<>> THEN <<>> ELSE <<Head(cur)>>
AfterFetch(cur) == IF cur = <<>> THEN <<>> ELSE Tail(cur)
check_user_status_result(result) ==
  IF result = <<>> THEN "new"
  ELSE IF result[1] = 0 THEN "not_verified" ELSE "verified"

\* ------------------------------------------ the store calls, by statement
\* UserActivityTracker keeps one sqlite3 connection (check_same_thread=False)
\* for all threads.  A write call is: the statement on users, the INSERT into
\* activity_log, conn.commit(); an exception at any of them leads to
\* conn.rollback().  The first statement after a commit or rollback opens the
\* connection's transaction; commit and rollback act on the whole of it.
StoreOps == {"add_user", "track_activity", "update_captcha_status"}

\* the statement on users of each call
RowStatement(op, us, u, c) ==
  IF op = "add_user" THEN InsertOrReplaceUser(us, u, c)
  ELSE IF op = "track_activity" THEN BumpMessageCount(us, u, c)
  ELSE SetCaptchaPassed(us, u, c, "completed")

\* the action each call writes to activity_log
LogAction(op) ==
  IF op = "add_user" THEN "user_joined"
  ELSE IF op = "track_activity" THEN "message_sent"
  ELSE CaptchaAction("completed")

\* ------------------------------------------------ iterating a live dict
\* an iterator over the items of a dict object: the object the name
\* self.user_captcha was bound to when the iterator was made (live, until
\* the name is bound to another dict: then the items the object held at that
\* moment), the number of items passed, and the size of the dict when the
\* iterator was made
NoIter == [live |-> FALSE, dict |-> <<>>, pos |-> 0, size |-> 0]
NewIter(d) == [live |-> TRUE, dict |-> <<>>, pos |-> 0, size |-> Len(d)]
IterDict(it, d) == IF it.live THEN d ELSE it.dict
\* RuntimeError: dictionary changed size during iteration
IterRaises(it, d) == Len(IterDict(it, d)) # it.size
\* StopIteration
IterDone(it, d) == it.pos >= Len(IterDict(it, d))
IterItem(it, d) == IterDict(it, d)[it.pos + 1]
Advance(it) == [it EXCEPT !.pos = @ + 1]
\* self.user_captcha is bound to another dict: d is what the old one holds
Detach(it, d) == IF it.live THEN [it EXCEPT !.live = FALSE, !.dict = d] ELSE it
\* ------------------------------------------------------------------ state
VARIABLES
  users,            \* rows of table users, as committed
  activity_log,     \* rows of table activity_log, in id order, as committed
  conn,             \* UserActivityTracker.conn: the rows and log entries as
                    \* the connection sees them, and whose writes are pending
  cursor,           \* UserActivityTracker.cursor: the unread rows of the
                    \* result set of the statement executed last
  committed,        \* history: <<event number, "row" or "log">> made durable
  user_captcha,     \* CaptchaBot.user_captcha
  emojis,           \* captcha_config['emojis'] (shuffled in place)
  now,              \* time.time(), seconds
  next_message_id,  \* id the Gateway gives to the next sent message
  th,               \* per handler thread: where it is in its handler, the
                    \* handler's locals
  outbox,           \* the send/reply/answer call of the step taken last
  spc,              \* position of the check_captcha_timeout thread
  current_time,     \* check_captcha_timeout: current_time
  snapshot,         \* check_captcha_timeout: rest of list(user_captcha.values())
  s_iter,           \* check_captcha_timeout: the comprehension's iterator
  s_new,            \* check_captcha_timeout: the dict the comprehension builds
  marks,            \* history: <<message_id, what happened to that session>>
  nev,              \* events dispatched so far
  fails             \* Gateway/storage failures so far

vars == <<users, activity_log, conn, cursor, committed, user_captcha, emojis, now,
          next_message_id, th, outbox, spc, current_time, snapshot, s_iter, s_new,
          marks, nev, fails>>
storeVars == <<users, activity_log, conn, cursor, committed>>
sweepVars == <<spc, current_time, snapshot, s_iter, s_new>>

\* the threads that run handlers at the same time
Threads == 1..NumThreads
\* the check_captcha_timeout thread
SweeperId == 0

NoStoreCall == [op |-> "none", user |-> 0, chat |-> 0]

\* a worker thread between two handlers, and the locals of a handler: id is
\* the number of the event; user/chat/data come from the event; user_status,
\* target_object, captcha_data, captcha_message and the session record under
\* construction belong to handle_new_member and generate_captcha, i, j and
\* swap (the two values on the stack of x[i], x[j] = x[j], x[i]) to
\* random.shuffle; captcha_info, the lookup's or comprehension's iterator and
\* the dict under construction to handle_captcha_response; chat_member,
\* reply_to and text to remove_captcha; call is the store call it is in or
\* made last and ret where the handler goes on after it; at_join is history:
\* the store status of the pair when the join was dispatched
IdleThread ==
  [pc |-> "idle", id |-> 0, user |-> 0, chat |-> 0, data |-> <<>>,
   user_status |-> "none", at_join |-> "none", target_object |-> "",
   i |-> 0, j |-> 0, swap |-> <<>>,
   captcha_data |-> <<>>, captcha_message |-> 0, record |-> <<>>,
   captcha_info |-> <<>>, iter |-> NoIter, new_dict |-> <<>>,
   chat_member |-> "", reply_to |-> <<>>, text |-> <<>>,
   call |-> NoStoreCall, ret |-> "idle"]

\* the connection with no transaction open over the durable state
NoTx(us, log) == [users |-> us, log |-> log, pending |-> {}]

\* a Gateway call that shows in the chat: what was sent, where, about or to
\* whom, and whether the call returned (ok) or raised
Msg(kind, c, u, ok) == [kind |-> kind, chat |-> c, user |-> u, ok |-> ok]

\* the bot after construction over a store that holds the given rows and log
InitWith(us, log) ==
  /\ users = us
  /\ activity_log = log
  /\ conn = NoTx(us, log)
  /\ cursor = <<>>
  /\ committed = {}
  /\ user_captcha = <<>>
  /\ emojis = InitEmojis
  /\ now = 0
  /\ next_message_id = 1
  /\ th = [t \in Threads |-> IdleThread]
  /\ outbox = <<>>
  /\ spc = "sleep"
  /\ current_time = 0
  /\ snapshot = <<>>
  /\ s_iter = NoIter
  /\ s_new = <<>>
  /\ marks = {}
  /\ nev = 0
  /\ fails = 0

\* a first start: DatabaseManager has just created the empty tables
Init == InitWith({}, <<>>)

\* the database file outlives the process: a start over the store of an
\* earlier run in which user 1 joined chat 1 and passed the challenge
VerifiedStore ==
  [users |-> {Row(1, 1, 1, 0)},
   log |-> <<LogEntry(1, 1, "user_joined"), LogEntry(1, 1, CaptchaAction("completed"))>>]
RestartInit == InitWith(VerifiedStore.users, VerifiedStore.log)

\* outcomes of a call that may raise, after f failures: TRUE = it returns
Outcomes(f) == IF f < MaxFails THEN {TRUE, FALSE} ELSE {TRUE}
Failed(ok) == IF ok THEN 0 ELSE 1

\* the worker pool hands an event to a free thread (which one makes no
\* difference: the lowest)
IsFree(t) ==
  /\ th[t].pc = "idle"
  /\ \A k \in Threads : th[k].pc = "idle" => t <= k

\* thread t goes on in its handler
At(t, pc) == th[t].pc = pc

\* no handler is running
AllIdle == \A t \in Threads : th[t].pc = "idle"

\* thread t has returned from its handler, or an exception has ended it
Done(t) == th' = [th EXCEPT ![t] = IdleThread]

\* the handler goes on after its store call; track_activity's handler is over
Return(r) == IF r.ret = "idle" THEN IdleThread ELSE [r EXCEPT !.pc = r.ret]

\* the clock advances
Tick ==
  /\ now < MaxTicks * TickStep
  /\ now' = now + TickStep
  /\ outbox' = <<>>
  /\ UNCHANGED <<storeVars, user_captcha, emojis, next_message_id, th,
                 sweepVars, marks, nev, fails>>

\* ------------------------------------------------------- the store calls
\* cursor.execute of a write call's statement on users (lines 125, 145,
\* 166), by thread t whose locals are r
ExecuteRow(t, r) ==
  \E ok \in Outcomes(fails) :
    /\ fails' = fails + Failed(ok)
    /\ cursor' = <<>>
    /\ conn' = IF ok
                 THEN [conn EXCEPT
                         !.users = RowStatement(r.call.op, @, r.call.user, r.call.chat),
                         !.pending = @ \cup {<<r.id, "row">>}]
                 ELSE conn
    /\ th' = [th EXCEPT ![t] = [r EXCEPT !.pc = IF ok THEN "st_log" ELSE "st_rollback"]]

\* the first statement of add_user
StoreRow(t) ==
  /\ At(t, "st_row")
  /\ ExecuteRow(t, th[t])
  /\ outbox' = <<>>
  /\ UNCHANGED <<users, activity_log, committed, user_captcha, emojis, now,
                 next_message_id, sweepVars, marks, nev>>

\* cursor.execute of the INSERT INTO activity_log (lines 131, 153, 172)
StoreLog(t) ==
  /\ At(t, "st_log")
  /\ \E ok \in Outcomes(fails) :
       /\ fails' = fails + Failed(ok)
       /\ cursor' = <<>>
       /\ conn' = IF ok
                    THEN [conn EXCEPT
                            !.log = Append(@, LogEntry(th[t].call.user, th[t].call.chat,
                                                       LogAction(th[t].call.op))),
                            !.pending = @ \cup {<<th[t].id, "log">>}]
                    ELSE conn
       /\ th' = [th EXCEPT ![t].pc = IF ok THEN "st_commit" ELSE "st_rollback"]
  /\ outbox' = <<>>
  /\ UNCHANGED <<users, activity_log, committed, user_captcha, emojis, now,
                 next_message_id, sweepVars, marks, nev>>

\* the sessions whose participant a committed update_captcha_status has set
\* to completed: the one the response was matched with, or for the command
\* the ones of the target
Completes(r) ==
  IF r.call.op # "update_captcha_status" \/
     ~\E row \in RowsOf(conn.users, r.call.user, r.call.chat) : row.captcha_passed = 1
    THEN {}
  ELSE IF r.captcha_info # <<>> THEN {<<r.captcha_info[1].message_id, "response">>}
  ELSE {<<user_captcha[i].message_id, "override">> :
          i \in {j \in 1..Len(user_captcha) :
                   Matches(user_captcha[j], r.call.user, r.call.chat)}}

\* conn.commit() (lines 137, 159, 178): everything pending on the connection
\* becomes durable; when it raises the call goes to its except branch
StoreCommit(t) ==
  /\ At(t, "st_commit")
  /\ \E ok \in Outcomes(fails) :
       /\ fails' = fails + Failed(ok)
       /\ IF ok
            THEN /\ users' = conn.users
                 /\ activity_log' = conn.log
                 /\ committed' = committed \cup conn.pending
                 /\ conn' = NoTx(conn.users, conn.log)
                 /\ marks' = marks \cup Completes(th[t])
                 /\ th' = [th EXCEPT ![t] = Return(th[t])]
            ELSE /\ th' = [th EXCEPT ![t].pc = "st_rollback"]
                 /\ UNCHANGED <<users, activity_log, committed, conn, marks>>
  /\ outbox' = <<>>
  /\ UNCHANGED <<cursor, user_captcha, emojis, now, next_message_id, sweepVars, nev>>

\* conn.rollback() in the except branch (lines 141, 162, 181): everything
\* pending on the connection is discarded
StoreRollback(t) ==
  /\ At(t, "st_rollback")
  /\ conn' = NoTx(users, activity_log)
  /\ th' = [th EXCEPT ![t] = Return(th[t])]
  /\ outbox' = <<>>
  /\ UNCHANGED <<users, activity_log, cursor, committed, user_captcha, emojis, now,
                 next_message_id, sweepVars, marks, nev, fails>>

\* ------------------------------------------------- welcome / handle_new_member
\* the status both the committed rows and the connection tell for the pair
StatusAtJoin(u, c) ==
  IF StatusOf(users, u, c) = StatusOf(conn.users, u, c)
    THEN StatusOf(users, u, c) ELSE "changing"

\* check_user_status has returned status: the handler enters add_user and
\* will branch on the status afterwards (line 281)
AfterStatus(r, status) ==
  [r EXCEPT !.pc = "st_row",
            !.user_status = status,
            !.call = [op |-> "add_user", user |-> r.user, chat |-> r.chat],
            !.ret = IF NeedsCaptcha(status) THEN "nm_shuffle" ELSE "nm_greet"]

\* welcome(message) for a message with new member u in chat c, up to the
\* cursor.execute of check_user_status; a raised exception is the status 'error'
NewChatMember(t, u, c) ==
  /\ IsFree(t)
  /\ nev' = nev + 1
  /\ \E ok \in Outcomes(fails) :
       /\ cursor' = IF ok THEN check_user_status_execute(conn.users, u, c) ELSE <<>>
       /\ fails' = fails + Failed(ok)
       /\ LET r == [IdleThread EXCEPT !.pc = "nm_fetch", !.id = nev + 1, !.user = u,
                                      !.chat = c, !.at_join = StatusAtJoin(u, c)]
          IN th' = [th EXCEPT ![t] = IF ok THEN r ELSE AfterStatus(r, "error")]
  /\ outbox' = <<>>
  /\ UNCHANGED <<users, activity_log, conn, committed, user_captcha, emojis, now,
                 next_message_id, sweepVars, marks>>

\* check_user_status from cursor.fetchone() on: the row comes from the
\* result set the shared cursor holds by now
NmFetch(t) ==
  /\ At(t, "nm_fetch")
  /\ \E ok \in Outcomes(fails) :
       /\ cursor' = IF ok THEN AfterFetch(cursor) ELSE cursor
       /\ fails' = fails + Failed(ok)
       /\ th' = [th EXCEPT ![t] =
                   AfterStatus(th[t], IF ok THEN check_user_status_result(fetchone(cursor))
                                      ELSE "error")]
  /\ outbox' = <<>>
  /\ UNCHANGED <<users, activity_log, conn, committed, user_captcha, emojis, now,
                 next_message_id, sweepVars, marks, nev>>

\* generate_captcha up to the call of random.shuffle (lines 325-328): a
\* concept is chosen; the list to shuffle is the configured list of its
\* labels itself, and the loop of shuffle starts at its last index
NmShuffle(t) ==
  /\ At(t, "nm_shuffle")
  /\ \E o \in Range(objects) :
       th' = [th EXCEPT ![t].pc = IF Len(emojis[o]) >= 2 THEN "sh_load_j" ELSE "nm_first",
                        ![t].target_object = o,
                        ![t].i = Len(emojis[o])]
  /\ outbox' = <<>>
  /\ UNCHANGED <<storeVars, user_captcha, emojis, now, next_message_id, sweepVars,
                 marks, nev, fails>>

\* random.shuffle(x), one round for index i: j = randbelow(i + 1) and
\* x[i], x[j] = x[j], x[i], which reads x[j], reads x[i], writes x[i] and
\* writes x[j], on the list all threads share
ShuffleLoadJ(t) ==
  /\ At(t, "sh_load_j")
  /\ \E j \in 1..th[t].i :
       th' = [th EXCEPT ![t].pc = "sh_load_i",
                        ![t].j = j,
                        ![t].swap = <<emojis[th[t].target_object][j]>>]
  /\ outbox' = <<>>
  /\ UNCHANGED <<storeVars, user_captcha, emojis, now, next_message_id, sweepVars,
                 marks, nev, fails>>

ShuffleLoadI(t) ==
  /\ At(t, "sh_load_i")
  /\ th' = [th EXCEPT ![t].pc = "sh_store_i",
                      ![t].swap = Append(@, emojis[th[t].target_object][th[t].i])]
  /\ outbox' = <<>>
  /\ UNCHANGED <<storeVars, user_captcha, emojis, now, next_message_id, sweepVars,
                 marks, nev, fails>>

ShuffleStoreI(t) ==
  /\ At(t, "sh_store_i")
  /\ emojis' = [emojis EXCEPT ![th[t].target_object][th[t].i] = th[t].swap[1]]
  /\ th' = [th EXCEPT ![t].pc = "sh_store_j"]
  /\ outbox' = <<>>
  /\ UNCHANGED <<storeVars, user_captcha, now, next_message_id, sweepVars, marks,
                 nev, fails>>

\* the round ends; the loop goes down to index 1 (the second item)
ShuffleStoreJ(t) ==
  /\ At(t, "sh_store_j")
  /\ emojis' = [emojis EXCEPT ![th[t].target_object][th[t].j] = th[t].swap[2]]
  /\ th' = [th EXCEPT ![t].pc = IF th[t].i - 1 >= 2 THEN "sh_load_j" ELSE "nm_first",
                      ![t].i = @ - 1,
                      ![t].j = 0,
                      ![t].swap = <<>>]
  /\ outbox' = <<>>
  /\ UNCHANGED <<storeVars, user_captcha, now, next_message_id, sweepVars, marks,
                 nev, fails>>

\* generate_captcha's result (line 333): the correct label is the one that
\* is first in the list now
NmFirst(t) ==
  /\ At(t, "nm_first")
  /\ th' = [th EXCEPT ![t].pc = "nm_send",
                      ![t].i = 0,
                      ![t].captcha_data =
                         <<[object |-> th[t].target_object,
                            correct_emoji |-> emojis[th[t].target_object][1]]>>]
  /\ outbox' = <<>>
  /\ UNCHANGED <<storeVars, user_captcha, emojis, now, next_message_id, sweepVars,
                 marks, nev, fails>>

\* send_message of the challenge (line 292): the Gateway numbers the message
NmSend(t) ==
  /\ At(t, "nm_send")
  /\ \E ok \in Outcomes(fails) :
       /\ outbox' = <<Msg("challenge", th[t].chat, th[t].user, ok)>>
       /\ fails' = fails + Failed(ok)
       /\ IF ok
            THEN /\ th' = [th EXCEPT ![t].pc = "nm_time",
                                     ![t].captcha_message = next_message_id]
                 /\ next_message_id' = next_message_id + 1
            ELSE /\ Done(t)
                 /\ UNCHANGED next_message_id
  /\ UNCHANGED <<storeVars, user_captcha, emojis, now, sweepVars, marks, nev>>

\* the session record is built (lines 299-304): time.time() is read
NmTime(t) ==
  /\ At(t, "nm_time")
  /\ th' = [th EXCEPT ![t].pc = "nm_store",
                      ![t].record =
                         <<Session(SessionKey(th[t].user, th[t].captcha_message),
                                   th[t].captcha_data[1].object,
                                   th[t].captcha_data[1].correct_emoji,
                                   th[t].captcha_message, th[t].chat, th[t].user, now)>>]
  /\ outbox' = <<>>
  /\ UNCHANGED <<storeVars, user_captcha, emojis, now, next_message_id, sweepVars,
                 marks, nev, fails>>

\* self.user_captcha[new_member.id] = record (line 298), into the dict the
\* name is bound to now
NmStore(t) ==
  /\ At(t, "nm_store")
  /\ user_captcha' = DictSet(user_captcha, th[t].record[1].k, th[t].record[1])
  /\ marks' = marks \cup
       {<<user_captcha[i].message_id, "replaced">> :
          i \in {j \in 1..Len(user_captcha) : Matches(user_captcha[j], th[t].user, th[t].chat)}}
  /\ Done(t)
  /\ outbox' = <<>>
  /\ UNCHANGED <<storeVars, emojis, now, next_message_id, sweepVars, nev, fails>>

\* the greeting of a verified member (line 309) or the notice of the failed
\* lookup (line 316)
NmGreet(t) ==
  /\ At(t, "nm_greet")
  /\ \E ok \in Outcomes(fails) :
       /\ outbox' = <<Msg(IF th[t].user_status = "verified"
                            THEN "welcome_back" ELSE "check_error",
                          th[t].chat, th[t].user, ok)>>
       /\ fails' = fails + Failed(ok)
  /\ Done(t)
  /\ UNCHANGED <<storeVars, user_captcha, emojis, now, next_message_id, sweepVars,
                 marks, nev>>

\* ------------------------------------------------- handle_captcha_response
CallbackDatas == {callback_data(e) : e \in EmojiSet}

\* captcha_callback(call): the generator of the lookup is made over
\* self.user_captcha.values() (line 342)
CaptchaCallback(t, u, c, d) ==
  /\ IsFree(t)
  /\ IsCaptchaData(d)
  /\ nev' = nev + 1
  /\ th' = [th EXCEPT ![t] =
              [IdleThread EXCEPT !.pc = "cb_next", !.id = nev + 1, !.user = u,
                                 !.chat = c, !.data = d, !.iter = NewIter(user_captcha)]]
  /\ outbox' = <<>>
  /\ UNCHANGED <<storeVars, user_captcha, emojis, now, next_message_id, sweepVars,
                 marks, fails>>

\* the generator takes the next session and tests it (line 343).  A dict
\* that changed size ends the handler with RuntimeError, the end of the dict
\* with no session found (line 348); the first session of the pair is
\* compared with the pressed option (line 352)
CbNext(t) ==
  /\ At(t, "cb_next")
  /\ IF IterRaises(th[t].iter, user_captcha) \/ IterDone(th[t].iter, user_captcha)
       THEN Done(t) /\ UNCHANGED marks
       ELSE LET info == IterItem(th[t].iter, user_captcha)
            IN IF ~Matches(info, th[t].user, th[t].chat)
                 THEN /\ th' = [th EXCEPT ![t].iter = Advance(@)]
                      /\ UNCHANGED marks
                 ELSE /\ th' = [th EXCEPT
                                  ![t].pc = IF IsCorrect(selected_emoji(th[t].data), info)
                                              THEN "cr_delete" ELSE "cb_answer",
                                  ![t].captcha_info = <<info>>,
                                  ![t].iter = NoIter]
                      /\ marks' = marks \cup
                           {<<info.message_id,
                              IF IsCorrect(selected_emoji(th[t].data), info)
                                THEN "correct" ELSE "wrong">>}
  /\ outbox' = <<>>
  /\ UNCHANGED <<storeVars, user_captcha, emojis, now, next_message_id, sweepVars,
                 nev, fails>>

\* answer_callback_query after a wrong option (line 375)
CbAnswer(t) ==
  /\ At(t, "cb_answer")
  /\ \E ok \in Outcomes(fails) :
       /\ outbox' = <<Msg("not_object", th[t].chat, th[t].user, ok)>>
       /\ fails' = fails + Failed(ok)
  /\ Done(t)
  /\ UNCHANGED <<storeVars, user_captcha, emojis, now, next_message_id, sweepVars,
                 marks, nev>>

\* delete_message of the challenge (line 353); the handler then enters
\* update_captcha_status(user_id, chat_id, 'completed')
CrDelete(t) ==
  /\ At(t, "cr_delete")
  /\ \E ok \in Outcomes(fails) :
       /\ fails' = fails + Failed(ok)
       /\ IF ok
            THEN th' = [th EXCEPT ![t].pc = "st_row",
                                  ![t].call = [op |-> "update_captcha_status",
                                               user |-> th[t].user, chat |-> th[t].chat],
                                  ![t].ret = "cr_send"]
            ELSE Done(t)
  /\ outbox' = <<>>
  /\ UNCHANGED <<storeVars, user_captcha, emojis, now, next_message_id, sweepVars,
                 marks, nev>>

\* send_message of the confirmation (line 364)
CrSend(t) ==
  /\ At(t, "cr_send")
  /\ \E ok \in Outcomes(fails) :
       /\ outbox' = <<Msg("passed", th[t].chat, th[t].user, ok)>>
       /\ fails' = fails + Failed(ok)
       /\ IF ok THEN th' = [th EXCEPT ![t].pc = "cr_iter"] ELSE Done(t)
  /\ UNCHANGED <<storeVars, user_captcha, emojis, now, next_message_id, sweepVars,
                 marks, nev>>

\* the dict comprehension starts over self.user_captcha.items() (line 371)
CrIter(t) ==
  /\ At(t, "cr_iter")
  /\ th' = [th EXCEPT ![t].pc = "cr_next",
                      ![t].iter = NewIter(user_captcha),
                      ![t].new_dict = <<>>]
  /\ outbox' = <<>>
  /\ UNCHANGED <<storeVars, user_captcha, emojis, now, next_message_id, sweepVars,
                 marks, nev, fails>>

\* the comprehension takes the next item and keeps it unless it is of the
\* pair (line 372); a dict that changed size ends the handler with
\* RuntimeError
CrNext(t) ==
  /\ At(t, "cr_next")
  /\ IF IterRaises(th[t].iter, user_captcha)
       THEN Done(t)
     ELSE IF IterDone(th[t].iter, user_captcha)
       THEN th' = [th EXCEPT ![t].pc = "cr_assign", ![t].iter = NoIter]
     ELSE th' = [th EXCEPT
                   ![t].iter = Advance(@),
                   ![t].new_dict =
                      IF NotMatches(IterItem(th[t].iter, user_captcha), th[t].user, th[t].chat)
                        THEN Append(@, IterItem(th[t].iter, user_captcha)) ELSE @]
  /\ outbox' = <<>>
  /\ UNCHANGED <<storeVars, user_captcha, emojis, now, next_message_id, sweepVars,
                 marks, nev, fails>>

\* the threads after self.user_captcha was bound to another dict by thread
\* t (0: the sweeper): their iterators go on over the dict they were made on
Rebound(t) ==
  [k \in Threads |->
     IF k = t THEN IdleThread ELSE [th[k] EXCEPT !.iter = Detach(@, user_captcha)]]

\* the rebuilt dict is bound to self.user_captcha (line 370)
CrAssign(t) ==
  /\ At(t, "cr_assign")
  /\ user_captcha' = th[t].new_dict
  /\ th' = Rebound(t)
  /\ s_iter' = Detach(s_iter, user_captcha)
  /\ outbox' = <<>>
  /\ UNCHANGED <<storeVars, emojis, now, next_message_id, spc, current_time, snapshot,
                 s_new, marks, nev, fails>>

\* ------------------------------------------------------------ track_activity
\* track_activity(message) for an ordinary message of u in chat c, up to the
\* first statement of the tracker's track_activity
Message(t, u, c) ==
  /\ IsFree(t)
  /\ nev' = nev + 1
  /\ ExecuteRow(t, [IdleThread EXCEPT
                      !.id = nev + 1, !.user = u, !.chat = c,
                      !.call = [op |-> "track_activity", user |-> u, chat |-> c]])
  /\ outbox' = <<>>
  /\ UNCHANGED <<users, activity_log, committed, user_captcha, emojis, now,
                 next_message_id, sweepVars, marks>>

\* ------------------------------------------------------------ remove_captcha
Roles == {"administrator", "creator", "member"}
\* /remove_captcha alone, with a word that is no number, with -1 written
\* after an em space with the Arabic-Indic digit one, and with a user's id
CommandTexts(U) ==
  {<<"/remove_captcha">>, <<"/remove_captcha", " ", "x">>,
   <<"/remove_captcha", "U+2003", "-", "U+0661">>}
  \cup {<<"/remove_captcha", " ", AsciiDigits[u + 1]>> : u \in U}
ReplyTargets(U) == {<<>>} \cup {<<u>> : u \in U}
\* /remove_captcha with a decimal numeral of one digit more than int()
\* converts
LongCommand ==
  <<"/remove_captcha", " ">> \o [i \in 1..(int_max_str_digits + 1) |-> "1"]
\* the commands about the users U, by the caller's role, the reply target
\* and the text; the long numeral comes from an administrator, not as a
\* reply
Commands(U) ==
  (Roles \X ReplyTargets(U) \X CommandTexts(U))
  \cup {<<"administrator", <<>>, LongCommand>>}

\* where lines 237-250 lead: the branch taken and the resolved user_id
RcBranch(role, reply_to, text) ==
  IF ~IsAdmin(role) THEN [to |-> "reply_denied", target |-> <<>>]
  ELSE IF reply_to # <<>> THEN [to |-> "update", target |-> reply_to]
  ELSE IF Len(SplitWS(text)) > 1
    THEN IF ParseInt(SplitWS(text)[2]) = <<>>
           THEN [to |-> "reply_bad_id", target |-> <<>>]
           ELSE [to |-> "update", target |-> ParseInt(SplitWS(text)[2])]
  ELSE [to |-> "reply_usage", target |-> <<>>]

\* remove_captcha(message): caller u in chat c; the message replies to a
\* message of reply_to (or to none) and has the given text.  The handler
\* asks the Gateway for the caller's chat member record (line 235), which
\* comes with the given role or raises
RemoveCaptcha(t, u, c, role, reply_to, text) ==
  /\ IsFree(t)
  /\ nev' = nev + 1
  /\ \E ok \in Outcomes(fails) :
       /\ fails' = fails + Failed(ok)
       /\ th' = IF ok
                  THEN [th EXCEPT ![t] =
                          [IdleThread EXCEPT !.pc = "rc_branch", !.id = nev + 1,
                                             !.user = u, !.chat = c,
                                             !.chat_member = role,
                                             !.reply_to = reply_to, !.text = text]]
                  ELSE th
  /\ outbox' = <<>>
  /\ UNCHANGED <<storeVars, user_captcha, emojis, now, next_message_id, sweepVars,
                 marks>>

\* lines 237-259 after get_chat_member: a rejected command is answered
\* (lines 246, 249, 259) and the handler returns; an accepted one goes into
\* update_captcha_status(user_id, chat_id, 'completed'), up to its first
\* statement
RcDecide(t) ==
  /\ At(t, "rc_branch")
  /\ LET br == RcBranch(th[t].chat_member, th[t].reply_to, th[t].text)
     IN IF br.to = "update"
          THEN /\ ExecuteRow(t, [th[t] EXCEPT
                                   !.call = [op |-> "update_captcha_status",
                                             user |-> br.target[1], chat |-> th[t].chat],
                                   !.ret = "rc_reply"])
               /\ outbox' = <<>>
          ELSE /\ \E ok \in Outcomes(fails) :
                    /\ outbox' = <<Msg(br.to, th[t].chat, th[t].user, ok)>>
                    /\ fails' = fails + Failed(ok)
               /\ Done(t)
               /\ UNCHANGED <<conn, cursor>>
  /\ UNCHANGED <<users, activity_log, committed, user_captcha, emojis, now,
                 next_message_id, sweepVars, marks, nev>>

\* the reply that names the target (line 254)
RcReply(t) ==
  /\ At(t, "rc_reply")
  /\ \E ok \in Outcomes(fails) :
       /\ outbox' = <<Msg("reply_forced", th[t].chat, th[t].call.user, ok)>>
       /\ fails' = fails + Failed(ok)
  /\ Done(t)
  /\ UNCHANGED <<storeVars, user_captcha, emojis, now, next_message_id, sweepVars,
                 marks, nev>>

\* ------------------------------------------------------ check_captcha_timeout
SweeperAt(pc) == spc = pc

\* top of the while loop: current_time = time.time() (line 385)
SweepTime ==
  /\ SweeperAt("sleep")
  /\ current_time' = now
  /\ spc' = "list"
  /\ outbox' = <<>>
  /\ UNCHANGED <<storeVars, user_captcha, emojis, now, next_message_id, th,
                 snapshot, s_iter, s_new, marks, nev, fails>>

\* the for loop goes to its next captcha_info, or is over: time.sleep(60)
NextItem ==
  /\ snapshot' = Tail(snapshot)
  /\ spc' = IF Tail(snapshot) = <<>> THEN "sleep" ELSE "scan"
  /\ current_time' = IF Tail(snapshot) = <<>> THEN 0 ELSE current_time
  /\ s_iter' = NoIter
  /\ s_new' = <<>>

\* list(self.user_captcha.values()) (line 388)
SweepList ==
  /\ SweeperAt("list")
  /\ snapshot' = user_captcha
  /\ spc' = IF user_captcha = <<>> THEN "sleep" ELSE "scan"
  /\ current_time' = IF user_captcha = <<>> THEN 0 ELSE current_time
  /\ outbox' = <<>>
  /\ UNCHANGED <<storeVars, user_captcha, emojis, now, next_message_id, th,
                 s_iter, s_new, marks, nev, fails>>

\* one captcha_info of the for loop: the age test (line 389) and, for an
\* expired one, delete_message (line 391); an exception goes to the except
\* clause and the loop goes on
SweepItem ==
  /\ SweeperAt("scan")
  /\ IF ~IsExpired(Head(snapshot), current_time)
       THEN NextItem /\ UNCHANGED fails
       ELSE \E ok \in Outcomes(fails) :
              /\ fails' = fails + Failed(ok)
              /\ IF ok THEN /\ spc' = "kick"
                            /\ UNCHANGED <<current_time, snapshot, s_iter, s_new>>
                       ELSE NextItem
  /\ outbox' = <<>>
  /\ UNCHANGED <<storeVars, user_captcha, emojis, now, next_message_id, th, marks, nev>>

\* kick_chat_member (line 395)
SweepKick ==
  /\ SweeperAt("kick")
  /\ \E ok \in Outcomes(fails) :
       /\ fails' = fails + Failed(ok)
       /\ IF ok THEN /\ spc' = "s_iter"
                     /\ marks' = marks \cup {<<Head(snapshot).message_id, "expiry">>}
                     /\ UNCHANGED <<current_time, snapshot, s_iter, s_new>>
                ELSE NextItem /\ UNCHANGED marks
  /\ outbox' = <<>>
  /\ UNCHANGED <<storeVars, user_captcha, emojis, now, next_message_id, th, nev>>

\* the dict comprehension starts over self.user_captcha.items() (line 402)
SweepIter ==
  /\ SweeperAt("s_iter")
  /\ s_iter' = NewIter(user_captcha)
  /\ s_new' = <<>>
  /\ spc' = "s_next"
  /\ outbox' = <<>>
  /\ UNCHANGED <<storeVars, user_captcha, emojis, now, next_message_id, th,
                 current_time, snapshot, marks, nev, fails>>

\* the comprehension takes the next item and keeps it unless it is of the
\* pair (lines 403-404); the RuntimeError of a dict that changed size goes to
\* the except clause
SweepNext ==
  /\ SweeperAt("s_next")
  /\ IF IterRaises(s_iter, user_captcha)
       THEN NextItem
     ELSE IF IterDone(s_iter, user_captcha)
       THEN /\ spc' = "s_assign"
            /\ s_iter' = NoIter
            /\ UNCHANGED <<current_time, snapshot, s_new>>
     ELSE /\ s_iter' = Advance(s_iter)
          /\ s_new' = IF NotMatches(IterItem(s_iter, user_captcha),
                                    Head(snapshot).user_id, Head(snapshot).chat_id)
                        THEN Append(s_new, IterItem(s_iter, user_captcha)) ELSE s_new
          /\ UNCHANGED <<spc, current_time, snapshot>>
  /\ outbox' = <<>>
  /\ UNCHANGED <<storeVars, user_captcha, emojis, now, next_message_id, th, marks,
                 nev, fails>>

\* the rebuilt dict is bound to self.user_captcha (line 401)
SweepAssign ==
  /\ SweeperAt("s_assign")
  /\ user_captcha' = s_new
  /\ th' = Rebound(SweeperId)
  /\ marks' = marks \cup
       {<<user_captcha[i].message_id, "evicted">> :
          i \in {j \in 1..Len(user_captcha) :
                   Matches(user_captcha[j], Head(snapshot).user_id,
                           Head(snapshot).chat_id)}}
  /\ NextItem
  /\ outbox' = <<>>
  /\ UNCHANGED <<storeVars, emojis, now, next_message_id, nev, fails>>

Sweeper ==
  SweepTime \/ SweepList \/ SweepItem \/ SweepKick \/ SweepIter \/ SweepNext \/ SweepAssign

\* the events the Gateway delivers about the users U in the chats C, each
\* to a free handler thread, while fewer than n events were delivered
Join(U, C, n) ==
  nev < n /\ \E t \in Threads, u \in U, c \in C : NewChatMember(t, u, c)
Callback(U, C, n) ==
  nev < n /\ \E t \in Threads, u \in U, c \in C, d \in CallbackDatas :
                CaptchaCallback(t, u, c, d)
Activity(U, C, n) ==
  nev < n /\ \E t \in Threads, u \in U, c \in C : Message(t, u, c)
Command(U, C, n) ==
  nev < n /\ \E t \in Threads, u \in U, c \in C, x \in Commands(U) :
                RemoveCaptcha(t, u, c, x[1], x[2], x[3])
\* a handler thread goes on with the handler, or the store call, it is in
StoreStep ==
  \E t \in Threads : StoreRow(t) \/ StoreLog(t) \/ StoreCommit(t) \/ StoreRollback(t)
JoinStep ==
  \E t \in Threads :
    NmFetch(t) \/ NmShuffle(t) \/ ShuffleLoadJ(t) \/ ShuffleLoadI(t) \/ ShuffleStoreI(t)
    \/ ShuffleStoreJ(t) \/ NmFirst(t) \/ NmSend(t) \/ NmTime(t) \/ NmStore(t)
    \/ NmGreet(t)
CallbackStep ==
  \E t \in Threads :
    CbNext(t) \/ CbAnswer(t) \/ CrDelete(t) \/ CrSend(t) \/ CrIter(t) \/ CrNext(t)
    \/ CrAssign(t)
CommandStep == \E t \in Threads : RcDecide(t) \/ RcReply(t)
HandlerStep == StoreStep \/ JoinStep \/ CallbackStep \/ CommandStep

\* joins and responses of all users, and the sweeper
Next ==
  \/ Tick
  \/ Join(Users, Chats, MaxEvents) \/ JoinStep
  \/ Callback(Users, Chats, MaxEvents) \/ CallbackStep
  \/ StoreStep
  \/ Sweeper
Spec == Init /\ [][Next]_vars

\* longer runs of joins and responses
ResponseNext ==
  \/ Join(Active, Chats, MoreEvents) \/ JoinStep
  \/ Callback(Active, Chats, MoreEvents) \/ CallbackStep
  \/ StoreStep
ResponseSpec == Init /\ [][ResponseNext]_vars

\* joins, /remove_captcha commands and the sweeper
AdminNext ==
  \/ Tick
  \/ Join(Active, Chats, MaxEvents) \/ JoinStep
  \/ Command(Active, Chats, MaxEvents) \/ CommandStep
  \/ StoreStep
  \/ Sweeper
AdminSpec == Init /\ [][AdminNext]_vars

\* longer runs of joins and ordinary messages
ActivityNext ==
  \/ Join(Active, Chats, MoreEvents) \/ JoinStep
  \/ Activity(Active, Chats, MoreEvents)
  \/ StoreStep
ActivitySpec == Init /\ [][ActivityNext]_vars

\* joins and ordinary messages after a restart over the store of an earlier
\* run
RestartNext ==
  \/ Join(Active, Chats, MaxEvents) \/ JoinStep
  \/ Activity(Active, Chats, MaxEvents)
  \/ StoreStep
RestartSpec == RestartInit /\ [][RestartNext]_vars

\* joins, handled one at a time, and the sweeper, with the threads never
\* terminating and each scheduled again and again: the sweeper goes on with
\* its loop and a handler that was started goes on
FairNext ==
  \/ Tick
  \/ (AllIdle /\ Join(Active, Chats, MaxEvents)) \/ JoinStep
  \/ StoreStep
  \/ Sweeper
FairSpec == Init /\ [][FairNext]_vars /\ WF_vars(Sweeper) /\ WF_vars(HandlerStep)
\* ------------------------------------------------------------- vocabulary
Passed(us, u, c) == \E r \in RowsOf(us, u, c) : r.captcha_passed = 1
HasSession(d, u, c) == \E i \in 1..Len(d) : Matches(d[i], u, c)
InTable(d, sid) == \E i \in 1..Len(d) : d[i].message_id = sid
Logged(log, u, c, action) ==
  \E i \in 1..Len(log) : log[i] = LogEntry(u, c, action)
\* the option whose button was pressed
ChosenOption(data) == CHOOSE e \in EmojiSet : callback_data(e) = data
SessionIds == 1..MoreEvents
\* the call of the step taken last was of this kind
Sent(box, kind) == box # <<>> /\ box[1].kind = kind
\* thread t returns from its handler in this step
Returns(t) == th[t].pc # "idle" /\ th'[t].pc = "idle"
\* this step is one of thread t inside its handler: its locals change, and
\* not merely because another thread bound self.user_captcha to a new dict
Took(t) ==
  /\ th[t].pc # "idle"
  /\ th'[t] # th[t]
  /\ th'[t] # [th[t] EXCEPT !.iter = Detach(@, user_captcha)]
\* thread t is inside a store call
StorePcs == {"st_row", "st_log", "st_commit", "st_rollback"}
\* thread t is in handle_captcha_response with the session of a correct
\* response in hand
InResponse(t) == th[t].captcha_info # <<>> /\ th[t].pc # "cb_answer"

\* ------------------------------------------------------------------ claims

\* C1: for one session at most one of response resolution, expiry resolution
\* and admin override takes effect: a participant whose status was set to
\* completed (by a correct response or by the override) is never also removed
\* from the chat by the sweeper for that same session.
C1_CompletedNeverAlsoKicked ==
  \A sid \in SessionIds :
    ~(/\ <<sid, "expiry">> \in marks
      /\ (<<sid, "response">> \in marks \/ <<sid, "override">> \in marks))

\* C2: user_captcha never holds more than one session for a (user_id, chat_id)
\* pair.
C2_AtMostOneSessionPerPair ==
  \A u \in Users, c \in Chats :
    Cardinality({i \in 1..Len(user_captcha) : Matches(user_captcha[i], u, c)}) <= 1

\* the table holds the sessions of two users, the second stored by its join
\* handler while the sweeper is rebuilding the table to evict the first
C2_Witness ==
  /\ Len(user_captcha) = 2
  /\ user_captcha[1].user_id # user_captcha[2].user_id
  /\ spc = "s_next"
  /\ Head(snapshot).message_id = user_captcha[1].message_id

\* C3: when handle_captcha_response has handled a response that chose the
\* session's correct option, then as the handler finishes captcha_passed is
\* true for the key and no session for the key is left, whatever the Gateway
\* calls and the store write did.
C3_CorrectResponseResolves ==
  [][\A t \in Threads :
       (InResponse(t) /\ Returns(t))
         => (/\ Passed(users', th[t].user, th[t].chat)
             /\ ~HasSession(user_captcha', th[t].user, th[t].chat))]_vars

\* C4: handling a response whose option differs from the session's correct
\* option changes neither the session table nor the users rows nor the
\* activity log: the lookup and the answer to the callback query touch
\* nothing, and only a response that chose the correct option of the session
\* it was matched with gets to the steps after them; wrong responses can
\* repeat and a later correct one resolves the session.
C4_WrongResponseChangesNothing ==
  [][\A t \in Threads :
       /\ (th[t].pc \in {"cb_next", "cb_answer"} /\ Took(t))
            => UNCHANGED <<user_captcha, users, activity_log, conn>>
       /\ th'[t].captcha_info # <<>>
            => (th'[t].pc # "cb_answer"
                  <=> ChosenOption(th'[t].data) = th'[t].captcha_info[1].correct_emoji)]_vars

\* a session that got a wrong response was later resolved by a correct one
C4_Witness ==
  \E sid \in SessionIds :
    /\ <<sid, "wrong">> \in marks
    /\ <<sid, "response">> \in marks
    /\ ~InTable(user_captcha, sid)
    /\ AllIdle

\* an expired session of (u, c) with challenge message sid is in the table
\* and no correct response to it has been handled
ExpiredPending(sid, u, c) ==
  /\ \E i \in 1..Len(user_captcha) :
       /\ user_captcha[i].message_id = sid
       /\ Matches(user_captcha[i], u, c)
       /\ IsExpired(user_captcha[i], now)
  /\ <<sid, "correct">> \notin marks

\* the session is gone, its participant was removed from the chat and the
\* store does not say verified; a correct response, or a new join of the same
\* pair that issued a fresh challenge, also ends the obligation
ExpiredSettled(sid, u, c) ==
  \/ <<sid, "correct">> \in marks
  \/ <<sid, "replaced">> \in marks
  \/ /\ ~InTable(user_captcha, sid)
     /\ <<sid, "expiry">> \in marks
     /\ ~Passed(users, u, c)

\* C5: under a fair sweeper and a Gateway that does not fail forever, every
\* session older than the limit that no correct response resolves is
\* eventually out of the table with its participant removed from the chat and
\* the store status unverified.
C5_ExpiredEventuallyRemoved ==
  \A sid \in SessionIds, u \in Users, c \in Chats :
    ExpiredPending(sid, u, c) ~> ExpiredSettled(sid, u, c)

\* the sweeper's assignment drops the session of the pair it has just handled
SweeperEvicts ==
  /\ spc = "s_assign" /\ spc' # "s_assign"
  /\ HasSession(user_captcha, Head(snapshot).user_id, Head(snapshot).chat_id)
  /\ ~HasSession(user_captcha', Head(snapshot).user_id, Head(snapshot).chat_id)

\* C6: whenever the sweeper evicts an expired session, the store has been
\* updated with outcome expired for that pair: after the eviction the row has
\* captcha_passed = 0 and the activity log holds a captcha_expired entry.
C6_EvictionRecordsExpired ==
  [][SweeperEvicts
     => (/\ ~Passed(users', Head(snapshot).user_id, Head(snapshot).chat_id)
         /\ Logged(activity_log', Head(snapshot).user_id, Head(snapshot).chat_id,
                   CaptchaAction("expired")))]_vars

\* C7: a join of a pair whose store status is verified when the join arrives
\* never creates or replaces a session and sends the welcome greeting, not a
\* challenge: its lookup tells verified (unless it raises, the case of the
\* error notice), and the handler then leaves the session table alone and
\* what it sends is the greeting.
C7_VerifiedJoinIsGreeted ==
  [][\A t \in Threads :
       (/\ th[t].at_join = "verified" /\ Took(t)
        /\ th[t].user_status # "error" /\ th'[t].user_status # "error")
         => (/\ th'[t].user_status \in {"none", "verified"}
             /\ user_captcha' = user_captcha
             /\ outbox' # <<>> => Sent(outbox', "welcome_back"))]_vars

\* C8: once a pair's store status is verified it stays verified, across any
\* number of later join events for the pair.
C8_VerifiedIsTerminal ==
  [][\A u \in Users, c \in Chats :
       StatusOf(users, u, c) = "verified" => StatusOf(users', u, c) = "verified"]_vars

\* C9: when remove_captcha has run for an administrator or creator with a
\* resolvable target, the target's store status for the chat is verified as
\* the handler finishes with its reply, whatever it was before (absent,
\* unverified, verified).
C9_OverrideForcesVerified ==
  [][\A t \in Threads :
       (th[t].pc = "rc_reply" /\ Returns(t) /\ outbox'[1].ok)
         => StatusOf(users', th[t].call.user, th[t].chat) = "verified"]_vars

\* the command text carries a second word that is not a decimal number
NonNumericArg(text) ==
  Len(SplitWS(text)) > 1 /\ ParseInt(SplitWS(text)[2]) = <<>>
NoArg(text) == Len(SplitWS(text)) <= 1

\* the commands the claim lists as rejected, by role, reply target and text
RejectedAsStated(role, reply_to, text) ==
  \/ role \notin {"administrator", "creator"}
  \/ NonNumericArg(text)
  \/ (reply_to = <<>> /\ NoArg(text))
\* the same, with the non-numeric argument counted only when the command is
\* not a reply
RejectedNoReply(role, reply_to, text) ==
  \/ role \notin {"administrator", "creator"}
  \/ (reply_to = <<>> /\ NonNumericArg(text))
  \/ (reply_to = <<>> /\ NoArg(text))

\* remove_captcha starts in this step: it has asked for the caller's chat
\* member record, which came or raised
CommandStarts ==
  /\ nev' = nev + 1
  /\ \/ th' = th
     \/ \E t \in Threads : th[t].pc = "idle" /\ th'[t].pc = "rc_branch"
\* thread t, in remove_captcha with the caller's record, takes its next step
CommandDecides(t) == th[t].pc = "rc_branch" /\ Took(t)
\* the step changes neither the store nor the session table
LeavesState == UNCHANGED <<users, activity_log, conn, user_captcha>>
\* thread t ends its handler in this step with one reply to the caller, of
\* the kinds that reject a command
OnlyReplies(t) ==
  /\ LeavesState
  /\ Returns(t)
  /\ Len(outbox') = 1
  /\ outbox'[1].kind \in {"reply_denied", "reply_bad_id", "reply_usage"}
  /\ outbox'[1].chat = th[t].chat /\ outbox'[1].user = th[t].user
  /\ outbox[1].ok
  /\ user_captcha # <<>>
  /\ users # {}

\* thread t executes the first statement of add_user in this step
AddUserStatement(t) ==
  th[t].pc = "st_row" /\ th[t].call.op = "add_user" /\ th'[t].pc = "st_log"

\* C11: add_user is idempotent on users: once its statement has run for
\* (u, c) the table holds exactly one row for the key and its captcha_passed
\* is 0, whatever the row held before, the other rows are as they were, and
\* running it a second time leaves the same table.
C11_AddUserIdempotent ==
  [][\A t \in Threads :
       AddUserStatement(t)
         => (/\ RowsOf(conn'.users, th[t].user, th[t].chat)
                   = {Row(th[t].user, th[t].chat, 0, 0)}
             /\ conn'.users \ RowsOf(conn'.users, th[t].user, th[t].chat)
                   = conn.users \ RowsOf(conn.users, th[t].user, th[t].chat)
             /\ RowStatement("add_user", conn'.users, th[t].user, th[t].chat)
                   = conn'.users)]_vars

\* add_user has run twice for a pair, the second time over a verified row
\* (the first time in the earlier run the store comes from)
C11_Witness ==
  \E u \in Users, c \in Chats :
    /\ RowsOf(users, u, c) = {Row(u, c, 0, 0)}
    /\ \E i, j, k \in 1..Len(activity_log) :
         /\ i < j /\ j < k
         /\ activity_log[i] = LogEntry(u, c, "user_joined")
         /\ activity_log[j] = LogEntry(u, c, "captcha_completed")
         /\ activity_log[k] = LogEntry(u, c, "user_joined")

\* C12: sessions are keyed by (user_id, chat_id): a join of u in chat c2
\* never removes or replaces the outstanding session of u in another chat
\* c1, so both stay tracked.
C12_JoinKeepsOtherChatSession ==
  [][\A t \in Threads, c1 \in Chats :
       (/\ th[t].pc = "nm_store" /\ Returns(t)
        /\ c1 # th[t].chat
        /\ HasSession(user_captcha, th[t].user, c1))
         => /\ HasSession(user_captcha', th[t].user, c1)
            /\ FindSession(user_captcha', th[t].user, c1)
                 = FindSession(user_captcha, th[t].user, c1)]_vars

\* a session that a correct response or the expiry removed from the table
\* does not come back (a new join makes a session with a new challenge)
RemovedStaysRemoved ==
  \A sid \in SessionIds :
    (/\ <<sid, "correct">> \in marks \/ <<sid, "expiry">> \in marks
     /\ ~InTable(user_captcha, sid))
      => ~InTable(user_captcha', sid)

\* the assignment that ends a removal of key (u, c) drops no other session
RemovalKeepsOthers(u, c) ==
  \A i \in 1..Len(user_captcha) :
    ~Matches(user_captcha[i], u, c) => InTable(user_captcha', user_captcha[i].message_id)

\* C13: updates of the session table are atomic with respect to each other:
\* a removed session is never seen in the table again (sessions appear only
\* when a join creates them), and the removal of one key by the response
\* handler or by the sweeper never drops the session of a different key.
C13_TableUpdatesAtomic ==
  [][/\ RemovedStaysRemoved
     /\ (spc = "s_assign" /\ spc' # "s_assign")
          => RemovalKeepsOthers(Head(snapshot).user_id, Head(snapshot).chat_id)
     /\ \A t \in Threads :
          (th[t].pc = "cr_assign" /\ Returns(t))
            => RemovalKeepsOthers(th[t].user, th[t].chat)]_vars

\* the store call of event id has returned, or was never made
Returned(id) == \A t \in Threads : th[t].id = id => th[t].pc \notin StorePcs

\* both writes of every returned call are durable, or neither is
AllOrNothing ==
  \A id \in 1..MoreEvents :
    Returned(id) => (<<id, "row">> \in committed <=> <<id, "log">> \in committed)

\* thread t commits, or rolls back, in this step
EndsTransaction(t) ==
  \/ th[t].pc = "st_commit" /\ th'[t].pc \notin StorePcs
  \/ th[t].pc = "st_rollback" /\ th'[t].pc \notin StorePcs

\* the commit or rollback of thread t touches only writes of its own call
OwnWritesOnly ==
  \A t \in Threads :
    EndsTransaction(t) => \A w \in conn.pending : w[1] = th[t].id

\* C14: every store write call is atomic even with several threads on the one
\* connection: the users-row write and the activity_log entry of a call are
\* both committed or both absent once it has returned, and the commit or
\* rollback of one call never commits or discards writes of another call that
\* is still in flight.
C14_StoreCallsAtomic == []AllOrNothing /\ [][OwnWritesOnly]_vars

\* C15: a Gateway call failing while a correct response is handled corrupts
\* nothing: the handler never ends with its write of completed committed for
\* the key while the key's session is still in the table.
C15_NoCompletedWithSession ==
  [][\A t \in Threads :
       (InResponse(t) /\ Returns(t) /\ <<th[t].id, "row">> \in committed)
         => ~(/\ Passed(users', th[t].user, th[t].chat)
              /\ HasSession(user_captcha', th[t].user, th[t].chat))]_vars

\* C16: a join whose status lookup returned error sends the failure notice,
\* creates no session and leaves the store as it was: the row of the key is
\* not created, replaced or reset.
C16_LookupErrorLeavesState ==
  [][\A t \in Threads :
       (th[t].user_status = "error" /\ Took(t))
         => (/\ user_captcha' = user_captcha
             /\ users' = users
             /\ conn'.users = conn.users
             /\ outbox' # <<>>
                  => outbox' = <<Msg("check_error", th[t].chat, th[t].user, outbox'[1].ok)>>)]_vars

\* C17: track_activity for a (user, chat) without a users row is a no-op on
\* durable state: neither users nor activity_log changes.
C17_TrackWithoutRowIsNoOp ==
  [][\A t \in Threads :
       (/\ th[t].call.op = "track_activity" /\ Took(t)
        /\ RowsOf(users, th[t].user, th[t].chat) = {}
        /\ RowsOf(conn.users, th[t].user, th[t].chat) = {}
        /\ \A w \in conn.pending : w[1] = th[t].id)
         => UNCHANGED <<users, activity_log>>]_vars

\* C18: the message_count of every (user, chat) row never decreases, across
\* joins, messages, captcha resolutions and overrides.
C18_MessageCountMonotonic ==
  [][\A u \in Users, c \in Chats :
       \A r \in RowsOf(users, u, c) :
         \A q \in RowsOf(users', u, c) : q.message_count >= r.message_count]_vars

\* the label that depicts a concept: the first entry of its configured pool
\* (the spoon for spoon, the fork for fork, the knife for knife, the cup for
\* cup)
ConceptLabel(o) == AllEmojis[o][1]

\* C19: for every challenge of generate_captcha the recorded correct option
\* is the label that matches the concept, wherever the shuffle has put it
\* among the presented options.
C19_CorrectIsConceptLabel ==
  \A i \in 1..Len(user_captcha) :
    user_captcha[i].correct_emoji = ConceptLabel(user_captcha[i].object)

\* ------------------------------------------------------------ event routing
\* register_handlers: the message handlers in the order of registration,
\* each with the content types and the filter of its decorator (a handler
\* given no content_types gets text messages)
MessageHandlers ==
  << [name |-> "welcome", content_types |-> {"new_chat_members"}, filter |-> "none"],
     [name |-> "track_activity", content_types |-> {"text"}, filter |-> "func_true"],
     [name |-> "remove_captcha", content_types |-> {"text"}, filter |-> "commands"] >>

JoinMessage == [content_type |-> "new_chat_members", text |-> <<>>]
TextMessage(t) == [content_type |-> "text", text |-> t]
IsCommand(t, cmd) == t # <<>> /\ t[1] = cmd

\* the handler's filters accept the message
HandlerMatches(h, m) ==
  /\ m.content_type \in h.content_types
  /\ h.filter = "commands" => IsCommand(m.text, "/remove_captcha")

\* handlers are tried in registration order; the first match takes the message
Route(m) ==
  LET hits == {i \in 1..Len(MessageHandlers) : HandlerMatches(MessageHandlers[i], m)}
  IN IF hits = {} THEN "none"
     ELSE MessageHandlers[CHOOSE i \in hits : \A j \in hits : i <= j].name

Texts(U) == CommandTexts(U) \cup {LongCommand, <<"hello">>}

\* a new_chat_members message arrives and a free thread takes it
DeliverJoin(t, u, c) ==
  /\ IsFree(t)
  /\ IF Route(JoinMessage) = "welcome" THEN NewChatMember(t, u, c)
     ELSE IF Route(JoinMessage) = "track_activity" THEN Message(t, u, c)
     ELSE FALSE

\* a text message of u arrives in chat c and a free thread takes it
DeliverText(t, u, c, role, reply_to, txt) ==
  /\ IsFree(t)
  /\ IF Route(TextMessage(txt)) = "remove_captcha"
       THEN RemoveCaptcha(t, u, c, role, reply_to, txt)
     ELSE IF Route(TextMessage(txt)) = "track_activity" THEN Message(t, u, c)
     ELSE FALSE

RoutedJoin(U, C, n) ==
  nev < n /\ \E t \in Threads, u \in U, c \in C : DeliverJoin(t, u, c)
RoutedText(U, C, n) ==
  nev < n /\ \E t \in Threads, u \in U, c \in C, r \in Roles, rt \in ReplyTargets(U),
                txt \in Texts(U) :
                DeliverText(t, u, c, r, rt, txt)

RoutedNext ==
  \/ Tick
  \/ RoutedJoin(Active, Chats, MaxEvents) \/ JoinStep
  \/ Callback(Active, Chats, MaxEvents) \/ CallbackStep
  \/ RoutedText(Active, Chats, MaxEvents)
  \/ StoreStep
  \/ Sweeper

\* the bot behind the Gateway's routing
RoutedSpec == Init /\ [][RoutedNext]_vars

\* the target of a command: the sender of the replied-to message, else the
\* numeric argument
Resolvable(reply_to, text) ==
  reply_to # <<>> \/ (Len(SplitWS(text)) > 1 /\ ParseInt(SplitWS(text)[2]) # <<>>)

\* the commands of an administrator or creator with a resolvable target
Overrides ==
  {x \in {"administrator", "creator"} \X ReplyTargets(Active) \X CommandTexts(Active) :
     Resolvable(x[2], x[3])}

\* C20: a /remove_captcha message of an administrator or creator with a
\* resolvable target is handled by the override handler, not taken by the
\* catch-all activity handler registered before it: unless get_chat_member
\* raises, the thread that takes the message is then in remove_captcha with
\* the caller's record and the message, on its way to
\* update_captcha_status for the target and the confirmation reply.
C20_CommandReachesOverride ==
  [][(nev' = nev + 1 /\ fails' = fails)
     => \A t \in Threads, u \in Active, c \in Chats, x \in Overrides :
          DeliverText(t, u, c, x[1], x[2], x[3])
            => (/\ th'[t].pc = "rc_branch"
                /\ th'[t].chat_member = x[1]
                /\ th'[t].reply_to = x[2]
                /\ th'[t].text = x[3]
                /\ RcBranch(x[1], x[2], x[3]).to = "update")]_vars
====
